---- MODULE Spec2Model ----
(***************************************************************************)
(* A model of object-graph-js: ObjectGraph (src/src/ObjectGraph.es6.js)    *)
(* driven by TaskQueue (src/src/TaskQueue.js).                             *)
(*                                                                         *)
(* Strings are sequences of one-character strings, so that concatenation,  *)
(* split('.'), length and ordering are computed as JavaScript computes     *)
(* them.  Live JavaScript objects are named "o8" .. "o11"; UID gives the   *)
(* $UID of each.  Primitive values are named by their typeof ("number",    *)
(* ...), null is "null", and a property whose getter throws reads "throw". *)
(***************************************************************************)
EXTENDS Integers, Sequences, FiniteSets, TLC

(***************************************************************************)
(* Bounds of the exploration.                                              *)
(***************************************************************************)
\* capture() calls made by the user of the graph
MaxCalls == 3
\* captures started (data reset) on the graph, deferred restarts included
MaxStarts == 4
\* opts.maxDequeueSize given to the graph's TaskQueue
MaxDequeue == 2
\* capture() calls made by a user who also queries and prunes the graph
MaxQCalls == 2
\* capture() calls made by a user who goes on to clone the graph
MaxCCalls == 1
\* getKeys() calls made by the user
MaxQueries == 2
\* removeIds() and removePrimitives() calls made by the user
MaxRemovals == 1

(***************************************************************************)
(* Strings.                                                                *)
(***************************************************************************)
EmptyStr == <<>>
DOT == <<".">>
PROTO == <<"_", "_", "p", "r", "o", "t", "o", "_", "_">>
UIDKEY == <<"$", "U", "I", "D">>
UIDKEY2 == <<"$", "U", "I", "D", "_", "_">>
NA == <<"a">>
NB == <<"b">>
NC == <<"c">>
NW == <<"w">>

EmptyMap == [x \in {} |-> 0]

Put(m, k, v) == [x \in (DOMAIN m) \cup {k} |-> IF x = k THEN v ELSE m[x]]

Del(m, ks) == [x \in (DOMAIN m) \ ks |-> m[x]]

(***************************************************************************)
(* ObjectGraph.prototype.types, FIRST_TYPE, LAST_TYPE.                     *)
(***************************************************************************)
FIRST_TYPE == 1
LAST_TYPE == 7
TypeNames == {"undefined", "boolean", "number", "string", "symbol", "null", "exception"}
types ==
  [t \in TypeNames |->
     CASE t = "undefined" -> 1
       [] t = "boolean" -> 2
       [] t = "number" -> 3
       [] t = "string" -> 4
       [] t = "symbol" -> 5
       [] t = "null" -> 6
       [] t = "exception" -> 7]

\* value returned by maybeSkip when traversal must not be skipped (null)
NoSkip == 0

blacklistedKeys == {UIDKEY, UIDKEY2, PROTO}

(***************************************************************************)
(* The live objects handed to capture().                                   *)
(***************************************************************************)
AllObj == {"o8", "o9", "o10", "o11"}

UID(o) ==
  CASE o = "o8" -> 8
    [] o = "o9" -> 9
    [] o = "o10" -> 10
    [] o = "o11" -> 11

Ids == {UID(o) : o \in AllObj}

\* { a: 1, b: <itself> }
HeapCycle ==
  [objs |-> {"o8"},
   proto |-> [o \in {"o8"} |-> "null"],
   fns |-> {},
   names |-> [o \in {"o8"} |-> <<UIDKEY2, NA, NB>>],
   val |-> [o \in {"o8"} |-> (UIDKEY2 :> "number") @@ (NA :> "number") @@ (NB :> "o8")],
   bl |-> {},
   roots |-> {"o8", "number"}]

\* o8.a -> o9, o8.b -> o10, o9.a -> o11, o10.a -> o11
HeapDiamond ==
  [objs |-> {"o8", "o9", "o10", "o11"},
   proto |-> [o \in {"o8", "o9", "o10", "o11"} |-> "null"],
   fns |-> {},
   names |-> [o \in {"o8", "o9", "o10", "o11"} |->
                CASE o = "o8" -> <<NA, NB>>
                  [] o \in {"o9", "o10"} -> <<NA>>
                  [] OTHER -> <<>>],
   val |-> [o \in {"o8", "o9", "o10", "o11"} |->
              CASE o = "o8" -> (NA :> "o9") @@ (NB :> "o10")
                [] o \in {"o9", "o10"} -> (NA :> "o11")
                [] OTHER -> EmptyMap],
   bl |-> {},
   roots |-> {"o8", "o9"}]

\* a window-like root (o8.w is o8) with a function o9 and a shared
\* delegation parent o10 that holds the inherited property b
HeapProto ==
  [objs |-> {"o8", "o9", "o10"},
   proto |-> [o \in {"o8", "o9", "o10"} |-> IF o = "o10" THEN "null" ELSE "o10"],
   fns |-> {"o9"},
   names |-> [o \in {"o8", "o9", "o10"} |->
                CASE o = "o8" -> <<NW, NA>>
                  [] o = "o9" -> <<NC>>
                  [] OTHER -> <<NB>>],
   val |-> [o \in {"o8", "o9", "o10"} |->
              CASE o = "o8" -> (NW :> "o8") @@ (NA :> "o9")
                [] o = "o9" -> (NC :> "string")
                [] OTHER -> (NB :> "o9")],
   bl |-> {},
   roots |-> {"o8", "o9"}]

\* o9 is blacklisted; it is the value of o8.a and the delegation parent of
\* o10; o8.b throws when read
HeapBlack ==
  [objs |-> {"o8", "o9", "o10"},
   proto |-> [o \in {"o8", "o9", "o10"} |-> IF o = "o10" THEN "o9" ELSE "null"],
   fns |-> {},
   names |-> [o \in {"o8", "o9", "o10"} |->
                CASE o = "o8" -> <<NA, NB, NC>>
                  [] o = "o9" -> <<NA>>
                  [] OTHER -> <<>>],
   val |-> [o \in {"o8", "o9", "o10"} |->
              CASE o = "o8" -> (NA :> "o9") @@ (NB :> "throw") @@ (NC :> "o10")
                [] o = "o9" -> (NA :> "boolean")
                [] OTHER -> EmptyMap],
   bl |-> {"o9"},
   roots |-> {"o8", "o9"}]

Heaps == {HeapCycle, HeapDiamond, HeapProto, HeapBlack}

\* opts.key of a capture() call
Keys == {EmptyStr, NW}

VARIABLES
  heap,        \* the live objects
  engine,      \* how the engine's sort asks the comparator of getKeys
  busy, root, key, data, metadata, protos, functions,
  keysCache,   \* this.keysCache: the address of the cache object
  caches,      \* the cache objects: address -> (id -> keys)
  lazy,        \* the properties initLazyData installs
  maps,        \* the objects data[id] refers to: address -> (name -> id)
  metas,       \* the objects metadata[id] refers to: address -> names described
  epoch,       \* captures started so far; names the objects a capture allocates
  q,           \* TaskQueue.q
  qOnDone,     \* TaskQueue.onDone: the chain of closures, outermost first
  timers,      \* flushes handed to window.setTimeout and not yet run
  agenda,      \* the calls the running handler still has to make, next first
  calls,       \* capture() calls made by the user
  queries,     \* getKeys() calls made by the user
  removals,    \* removeIds() and removePrimitives() calls made by the user
  fired,       \* per user call, how often its opts.onDone has been invoked
  stores,      \* per identity, storeObject calls since the last reset of data
  pruned,      \* an entry was removed since the last reset of data
  asserts,     \* the console.assert messages that failed
  clone        \* the graph a call of cloneWithout returned, if any

\* the fields of the graph that work items write
storeVars == <<data, metadata, protos, functions, maps, metas, q, stores, asserts>>
\* the other fields of the graph and of its queue
graphVars == <<busy, root, key, epoch, qOnDone>>
cacheVars == <<keysCache, caches>>
userVars == <<calls, queries, removals>>

vars == <<heap, engine, storeVars, graphVars, cacheVars, lazy, timers, agenda,
          userVars, fired, pruned, clone>>

(***************************************************************************)
(* Reading the live objects.                                               *)
(***************************************************************************)
\* typeof v
typeOf(v) ==
  IF v \in AllObj
    THEN (IF v \in heap.fns THEN "function" ELSE "object")
    ELSE (IF v = "null" THEN "object" ELSE v)

\* NameRewriter.rewriteName: a name that is a member name of Object.prototype
\* (NC stands for one) is stored as '+name+', any other name as it is
UnsafeNames == {NC}
rewriteName(name) ==
  IF name \in UnsafeNames THEN <<"+">> \o name \o <<"+">> ELSE name

\* maybeSkip without its test of this.data[o.$UID]
maybeSkipUnseen(dat, o) ==
  IF o = "null" THEN types["null"]
  ELSE IF typeOf(o) \in DOMAIN types THEN types[typeOf(o)]
  ELSE NoSkip

maybeSkip(dat, o) ==
  IF o = "null" THEN types["null"]
  ELSE IF typeOf(o) \in DOMAIN types THEN types[typeOf(o)]
  ELSE IF UID(o) \in DOMAIN dat THEN UID(o)
  ELSE NoSkip

isPropertyBlacklisted(o, k) ==
  IF heap.val[o][k] = "throw" THEN FALSE ELSE heap.val[o][k] \in heap.bl

isKeyBlacklisted(name) == name \in blacklistedKeys

(***************************************************************************)
(* The part of the state a work item changes, as one record.               *)
(***************************************************************************)
Cur ==
  [data |-> data, metadata |-> metadata, protos |-> protos,
   functions |-> functions, maps |-> maps, metas |-> metas, q |-> q,
   stores |-> stores, asserts |-> asserts]

Commit(S) ==
  /\ data' = S.data
  /\ metadata' = S.metadata
  /\ protos' = S.protos
  /\ functions' = S.functions
  /\ maps' = S.maps
  /\ metas' = S.metas
  /\ q' = S.q
  /\ stores' = S.stores
  /\ asserts' = S.asserts

Addr(ep, id) == <<ep, id>>

Failed(S, cond, msg) == IF cond THEN S.asserts ELSE S.asserts \cup {msg}

storeObject(S, id, ep) ==
  [S EXCEPT !.asserts = Failed(S, id \notin DOMAIN S.data, "Repeated store-id"),
            !.data = Put(@, id, Addr(ep, id)),
            !.maps = Put(@, Addr(ep, id), EmptyMap),
            !.stores = [@ EXCEPT ![id] = @ + 1]]

storeMetadata(S, id, ep) ==
  [S EXCEPT !.asserts = Failed(S, id \notin DOMAIN S.metadata,
                               "Repeated store-metadata-id"),
            !.metadata = Put(@, id, Addr(ep, id)),
            !.metas = Put(@, Addr(ep, id), {})]

storeProto(S, oId, protoId) ==
  [S EXCEPT !.asserts = Failed(S, oId \notin DOMAIN S.protos, "Repeated store-proto"),
            !.protos = Put(@, oId, protoId)]

Task(t, o, name, ep) == [t |-> t, o |-> o, name |-> name, ep |-> ep]

\* the names of o that visitObject and visitPropertyDescriptors go on with
VisitedNames(o) ==
  SelectSeq(heap.names[o],
            LAMBDA n : ~(isKeyBlacklisted(n) \/ isPropertyBlacklisted(o, n)))

enqueue(S, fs) == [S EXCEPT !.q = @ \o fs]

\* visitObject: the state after the call and the value returned
visitObject(S, o, ep) ==
  LET skip == maybeSkip(S.data, o) IN
  IF skip # NoSkip THEN [s |-> S, ret |-> skip]
  ELSE
    LET id == UID(o)
        S1 == IF typeOf(o) = "function"
                THEN [S EXCEPT !.functions = Append(@, id)] ELSE S
        S2 == storeMetadata(storeObject(S1, id, ep), id, ep)
        S3 == enqueue(S2, <<Task("proto", o, EmptyStr, ep),
                            Task("desc", o, EmptyStr, ep)>>)
        ns == VisitedNames(o)
        S4 == enqueue(S3, [i \in 1..Len(ns) |-> Task("prop", o, ns[i], ep)])
    IN [s |-> S4, ret |-> id]

\* dataMap[name] = v, dataMap being the object allocated at address a
WriteMap(S, a, name, v) ==
  IF a \in DOMAIN S.maps
    THEN [S EXCEPT !.maps = [@ EXCEPT ![a] = Put(@, name, v)]]
    ELSE S

visitPrototype(S, o, ep) ==
  LET r == visitObject(S, heap.proto[o], ep) IN storeProto(r.s, UID(o), r.ret)

\* visitProperty recording the value's identity without visiting the value
visitPropertyUnvisited(S, o, propertyName, a, ep) ==
  LET v == heap.val[o][propertyName] IN
  WriteMap(S, a, rewriteName(propertyName),
           IF v = "throw" THEN types["exception"]
           ELSE IF v \in AllObj THEN UID(v) ELSE maybeSkip(S.data, v))

\* visitProperty without its catch: a read that throws records nothing
visitPropertyUncaught(S, o, propertyName, a, ep) ==
  IF heap.val[o][propertyName] = "throw"
    THEN S
    ELSE LET r == visitObject(S, heap.val[o][propertyName], ep)
         IN WriteMap(r.s, a, rewriteName(propertyName), r.ret)

visitProperty(S, o, propertyName, a, ep) ==
  LET name == rewriteName(propertyName) IN
  IF heap.val[o][propertyName] = "throw"
    THEN WriteMap(S, a, name, types["exception"])
    ELSE LET r == visitObject(S, heap.val[o][propertyName], ep)
         IN WriteMap(r.s, a, name, r.ret)

visitPropertyDescriptors(S, o, a) ==
  LET ns == VisitedNames(o) IN
  IF a \in DOMAIN S.metas
    THEN [S EXCEPT !.metas = [@ EXCEPT ![a] = @ \cup {ns[i] : i \in 1..Len(ns)}]]
    ELSE S

\* one work item f(), run while the graph's current capture is number ep
RunTask(S, f, ep) ==
  CASE f.t = "proto" -> visitPrototype(S, f.o, ep)
    [] f.t = "desc" -> visitPropertyDescriptors(S, f.o, Addr(f.ep, UID(f.o)))
    [] f.t = "prop" -> visitProperty(S, f.o, f.name, Addr(f.ep, UID(f.o)), ep)

maxDequeueSize == MaxDequeue

\* the loop of flush running this.q[0] without the shift that removes it
FlushLoopUnshifted(S, i, ep) ==
  IF i < maxDequeueSize /\ Len(S.q) > 0 THEN RunTask(S, Head(S.q), ep) ELSE S

\* the loop of TaskQueue.flush
RECURSIVE FlushLoop(_, _, _)
FlushLoop(S, i, ep) ==
  IF i < maxDequeueSize /\ Len(S.q) > 0
    THEN FlushLoop(RunTask([S EXCEPT !.q = Tail(@)], Head(S.q), ep), i + 1, ep)
    ELSE S

(***************************************************************************)
(* String and array helpers of the JavaScript runtime.                     *)
(***************************************************************************)
\* the UTF-16 code unit of a character
Code(c) ==
  CASE c = "$" -> 36
    [] c = "+" -> 43
    [] c = "." -> 46
    [] c = "D" -> 68
    [] c = "I" -> 73
    [] c = "U" -> 85
    [] c = "_" -> 95
    [] c = "a" -> 97
    [] c = "b" -> 98
    [] c = "c" -> 99
    [] c = "o" -> 111
    [] c = "p" -> 112
    [] c = "r" -> 114
    [] c = "t" -> 116
    [] c = "w" -> 119
    [] c = "0" -> 48
    [] c = "1" -> 49
    [] c = "8" -> 56
    [] c = "9" -> 57

\* a < b on strings
RECURSIVE StrLT(_, _)
StrLT(a, b) ==
  IF b = <<>> THEN FALSE
  ELSE IF a = <<>> THEN TRUE
  ELSE IF Code(Head(a)) # Code(Head(b)) THEN Code(Head(a)) < Code(Head(b))
  ELSE StrLT(Tail(a), Tail(b))

\* String(n) for the identities of the model
Dec(n) ==
  CASE n = 8 -> <<"8">>
    [] n = 9 -> <<"9">>
    [] n = 10 -> <<"1", "0">>
    [] n = 11 -> <<"1", "1">>

\* Array.prototype.sort() without a comparator: by the elements' strings
RECURSIVE SortStrings(_)
SortStrings(S) ==
  IF S = {} THEN <<>>
  ELSE LET m == CHOOSE x \in S : \A y \in S \ {x} : StrLT(x, y)
       IN <<m>> \o SortStrings(S \ {m})

RECURSIVE SortIdsAsStrings(_)
SortIdsAsStrings(S) ==
  IF S = {} THEN <<>>
  ELSE LET m == CHOOSE x \in S : \A y \in S \ {x} : StrLT(Dec(x), Dec(y))
       IN <<m>> \o SortIdsAsStrings(S \ {m})

\* the order in which JavaScript enumerates integer keys: ascending
RECURSIVE AscSeq(_)
AscSeq(S) ==
  IF S = {} THEN <<>>
  ELSE LET m == CHOOSE x \in S : \A y \in S : x <= y
       IN <<m>> \o AscSeq(S \ {m})

Range(f) == {f[x] : x \in DOMAIN f}

\* the comparator getKeys hands to sort (lines 430-432); true counts as 1 and
\* false as 0
KeysCmp(a, b) ==
  IF Len(a) = Len(b) THEN (IF StrLT(b, a) THEN 1 ELSE 0) ELSE Len(a) - Len(b)

\* whether the insertion of e moves it in front of x.  The comparator is not
\* a consistent one, so the order is the engine's: an engine that asks
\* comparefn(x, e) > 0 (insertion sort) and one that asks comparefn(e, x) < 0
\* (binary insertion of TimSort)
MovesBefore(eng, e, x) ==
  IF eng = "asksGreater" THEN KeysCmp(x, e) > 0 ELSE KeysCmp(e, x) < 0

RECURSIVE InsertKey(_, _, _)
InsertKey(eng, sorted, e) ==
  IF sorted # <<>> /\ MovesBefore(eng, e, sorted[Len(sorted)])
    THEN Append(InsertKey(eng, SubSeq(sorted, 1, Len(sorted) - 1), e),
                sorted[Len(sorted)])
    ELSE Append(sorted, e)

RECURSIVE SortKeys(_, _)
SortKeys(eng, s) ==
  IF s = <<>> THEN <<>>
  ELSE InsertKey(eng, SortKeys(eng, SubSeq(s, 1, Len(s) - 1)), s[Len(s)])

Engines == {"asksGreater", "asksLess"}

\* String.prototype.split('.')
RECURSIVE SplitFrom(_, _, _)
SplitFrom(s, cur, acc) ==
  IF s = <<>> THEN Append(acc, cur)
  ELSE IF Head(s) = "." THEN SplitFrom(Tail(s), <<>>, Append(acc, cur))
  ELSE SplitFrom(Tail(s), Append(cur, Head(s)), acc)

Split(s) == SplitFrom(s, <<>>, <<>>)

(***************************************************************************)
(* The lazily computed indices (stdlib.memo) and the queries.              *)
(***************************************************************************)
\* a memoised property: not installed ("none"), installed and not yet read,
\* bound to the object that is this.data / this.protos ("live") or to one
\* that was replaced since and has the content snap ("old"), or read ("val")
Memo(st, snap, val) == [st |-> st, snap |-> snap, val |-> val]
NoMemo == Memo("none", EmptyMap, EmptyMap)
LiveMemo == Memo("live", EmptyMap, EmptyMap)
NoLazy == [invData |-> NoMemo, invProtos |-> NoMemo, allIds |-> NoMemo]

\* initLazyData
initLazyData == [invData |-> LiveMemo, invProtos |-> LiveMemo, allIds |-> LiveMemo]

\* capture() replaces this.data and this.protos; what is installed stays
\* bound to the replaced objects
Rebind(lz, dat, pr) ==
  [lz EXCEPT !.invData = IF @.st = "live" THEN Memo("old", dat, EmptyMap) ELSE @,
             !.invProtos = IF @.st = "live" THEN Memo("old", pr, EmptyMap) ELSE @]

\* remap['a:b:c=>c:b:[a]'] of the data object top, whose entries are the
\* objects of store
InvDataOf(top, store) ==
  LET owners == {a \in DOMAIN top : top[a] \in DOMAIN store}
      vals == UNION {Range(store[top[a]]) : a \in owners}
      names(v) == UNION {{n \in DOMAIN store[top[a]] : store[top[a]][n] = v} :
                         a \in owners}
      holders(v, n) == {a \in owners : n \in DOMAIN store[top[a]]
                                       /\ store[top[a]][n] = v}
  IN [v \in vals |-> [n \in names(v) |-> AscSeq(holders(v, n))]]

\* remap['a:b=>b:[a]'] of the protos object
InvProtosOf(pr) ==
  [p \in Range(pr) |-> AscSeq({a \in DOMAIN pr : pr[a] = p})]

\* the values the memoised properties have when read in this state
ReadInvData(G) ==
  CASE G.lazy.invData.st = "val" -> G.lazy.invData.val
    [] G.lazy.invData.st = "old" -> InvDataOf(G.lazy.invData.snap, G.maps)
    [] OTHER -> InvDataOf(G.data, G.maps)

ReadInvProtos(G) ==
  CASE G.lazy.invProtos.st = "val" -> G.lazy.invProtos.val
    [] G.lazy.invProtos.st = "old" -> InvProtosOf(G.lazy.invProtos.snap)
    [] OTHER -> InvProtosOf(G.protos)

\* getAllIds_
getAllIds_(G) == SortIdsAsStrings(DOMAIN G.data)

ReadAllIds(G) ==
  IF G.lazy.allIds.st = "val" THEN G.lazy.allIds.val ELSE getAllIds_(G)

isType(id) == id >= FIRST_TYPE /\ id <= LAST_TYPE

\* getKeys_(id, seen) on a graph with root R, key K and the indices ID and IP:
\* the keys returned and seen as the call leaves it
RECURSIVE getKeys_(_, _, _, _, _, _)
RECURSIVE KeysLoop(_, _, _, _, _, _, _, _)
getKeys_(R, K, ID, IP, id, seen) ==
  LET seen1 == seen \cup {id} IN
  IF R.id = id THEN [keys |-> <<K>>, seen |-> seen1]
  ELSE IF id \notin DOMAIN ID THEN [keys |-> <<>>, seen |-> seen1]
  ELSE
    LET ks == SortStrings({n \in DOMAIN ID[id] : ~isKeyBlacklisted(n)})
        RECURSIVE PropEdges(_)
        PropEdges(i) ==
          IF i > Len(ks) THEN <<>>
          ELSE [j \in 1..Len(ID[id][ks[i]]) |-> <<ks[i], ID[id][ks[i]][j]>>]
                 \o PropEdges(i + 1)
        protoEdges == IF id \in DOMAIN IP
                        THEN [j \in 1..Len(IP[id]) |-> <<PROTO, IP[id][j]>>]
                        ELSE <<>>
    IN KeysLoop(R, K, ID, IP, PropEdges(1) \o protoEdges, 1, seen1, <<>>)

KeysLoop(R, K, ID, IP, edges, i, seen, acc) ==
  IF i > Len(edges) THEN [keys |-> acc, seen |-> seen]
  ELSE IF edges[i][2] \in seen THEN KeysLoop(R, K, ID, IP, edges, i + 1, seen, acc)
  ELSE LET r == getKeys_(R, K, ID, IP, edges[i][2], seen)
       IN KeysLoop(R, K, ID, IP, edges, i + 1, r.seen,
                   acc \o [j \in 1..Len(r.keys) |-> r.keys[j] \o DOT \o edges[i][1]])

\* whether getKeys(id) throws: it reads this.invData before initLazyData ever
\* installed it
GetKeysThrows(G, id) ==
  /\ id \notin DOMAIN G.cache
  /\ G.root.id # id
  /\ G.lazy.invData.st = "none"

\* the keys getKeys(id) computes when keysCache has none for id
FreshKeys(G, id) ==
  SortKeys(G.engine,
           getKeys_(G.root, G.key, ReadInvData(G), ReadInvProtos(G), id, {}).keys)

\* the array getKeys(id) returns
getKeys(G, id) ==
  IF id \in DOMAIN G.cache THEN G.cache[id] ELSE FreshKeys(G, id)

\* the value null where a key is expected: no string of the model
NoKey == <<"null">>

\* getShortestKey: this.getKeys(id)[0] || null; the empty string is falsy
getShortestKey(G, id) ==
  LET ks == getKeys(G, id) IN
  IF ks = <<>> \/ ks[1] = EmptyStr THEN NoKey ELSE ks[1]

\* the indices after getKeys(id) has returned
LazyAfterGetKeys(G, id) ==
  IF id \in DOMAIN G.cache \/ G.root.id = id THEN G.lazy
  ELSE [G.lazy EXCEPT
          !.invData = Memo("val", EmptyMap, ReadInvData(G)),
          !.invProtos = IF id \in DOMAIN ReadInvData(G)
                          THEN Memo("val", EmptyMap, ReadInvProtos(G)) ELSE @]

\* results of lookup: an identity or a sentinel, null, or a TypeError thrown
Null == 0
TypeError == 0 - 1
\* a root that is no number (undefined, or the function or primitive that
\* capture() stored in this.root)
NotANumber == 0 - 2

\* getPrototype that takes no identity to have a recorded delegation parent
getPrototypeUnrecorded(G, id) == types["null"]

getPrototype(G, id) == IF id \in DOMAIN G.protos THEN G.protos[id] ELSE types["null"]

\* the while loop of lookup_ (lines 490-491)
RECURSIVE WalkUp(_, _, _)
WalkUp(G, id, name) ==
  IF isType(id) THEN [id |-> id, nextId |-> Null, err |-> FALSE]
  ELSE IF id \notin DOMAIN G.data \/ G.data[id] \notin DOMAIN G.maps
    THEN [id |-> id, nextId |-> Null, err |-> TRUE]
  ELSE IF name \in DOMAIN G.maps[G.data[id]]
    THEN [id |-> id, nextId |-> G.maps[G.data[id]][name], err |-> FALSE]
  ELSE WalkUp(G, getPrototype(G, id), name)

RECURSIVE LookupFrom(_, _, _, _)
LookupFrom(G, path, i, id) ==
  IF i > Len(path) THEN (IF id = 0 THEN Null ELSE id)
  ELSE IF path[i] = PROTO
    THEN (IF isType(id) THEN Null ELSE LookupFrom(G, path, i + 1, getPrototype(G, id)))
  ELSE LET w == WalkUp(G, id, path[i]) IN
       IF w.err THEN TypeError
       ELSE IF isType(w.id) THEN Null
       ELSE LookupFrom(G, path, i + 1, w.nextId)

lookup_(G, path, rt) == LookupFrom(G, path, 1, rt)

\* lookup(key) and lookup(key, opt_root)
lookupAt(G, k, rt) == lookup_(G, Split(k), rt)
lookup(G, k) == lookupAt(G, k, IF G.root.id # 0 THEN G.root.id ELSE NotANumber)

(***************************************************************************)
(* The calls a handler makes, and the closures stored in TaskQueue.onDone. *)
(***************************************************************************)
Instr(op, chain, o, ky, k) == [op |-> op, chain |-> chain, o |-> o, key |-> ky, k |-> k]
CaptureI(o, ky, k) == Instr("capture", <<>>, o, ky, k)
FlushI == Instr("flush", <<>>, "", EmptyStr, 0)
InvokeI(chain) == Instr("invoke", chain, "", EmptyStr, 0)
UserDoneI(k) == Instr("userDone", <<>>, "", EmptyStr, k)

\* the closure capture() installs when the graph is idle (lines 266-272) and
\* the one it installs when the graph is busy (lines 249-252); the closure's
\* prevOnDone is the rest of the chain
DoneClosure(k) == [t |-> "done", o |-> "", key |-> EmptyStr, k |-> k]
DeferClosure(o, ky, k) == [t |-> "defer", o |-> o, key |-> ky, k |-> k]

Undefined == [id |-> 0, raw |-> "undefined"]

\* this.root = typeof o === 'object' && o !== null ? o.$UID : o
RootOf(o) ==
  IF typeOf(o) = "object" /\ o # "null"
    THEN [id |-> UID(o), raw |-> ""]
    ELSE [id |-> 0, raw |-> o]

\* no call of cloneWithout has returned yet
NoClone ==
  [made |-> FALSE, data |-> EmptyMap, metadata |-> EmptyMap, protos |-> EmptyMap,
   functions |-> <<>>, lazy |-> NoLazy, keysCache |-> 0]

\* the graph as the queries read it
GView ==
  [root |-> root, key |-> key, data |-> data, protos |-> protos,
   functions |-> functions, metadata |-> metadata, maps |-> maps,
   lazy |-> lazy, cache |-> caches[keysCache], engine |-> engine]

Init ==
  /\ heap \in Heaps
  /\ engine \in Engines
  /\ busy = FALSE
  /\ root = Undefined
  /\ key = EmptyStr
  /\ data = EmptyMap
  /\ metadata = EmptyMap
  /\ protos = EmptyMap
  /\ functions = <<>>
  /\ keysCache = 0
  /\ caches = (0 :> EmptyMap)
  /\ lazy = NoLazy
  /\ maps = EmptyMap
  /\ metas = EmptyMap
  /\ epoch = 0
  /\ q = <<>>
  /\ qOnDone = <<>>
  /\ timers = 0
  /\ agenda = <<>>
  /\ calls = 0
  /\ queries = 0
  /\ removals = 0
  /\ fired = [k \in 1..MaxCalls |-> 0]
  /\ stores = [id \in Ids |-> 0]
  /\ pruned = FALSE
  /\ asserts = {}
  /\ clone = NoClone

\* the user calls capture(o, {key: ky, onDone: ...})
CaptureCallUpTo(n) ==
  /\ agenda = <<>>
  /\ calls < n
  /\ \E o \in heap.roots, ky \in Keys :
       agenda' = <<CaptureI(o, ky, calls + 1)>>
  /\ calls' = calls + 1
  /\ UNCHANGED <<heap, engine, clone, storeVars, graphVars, cacheVars, lazy, timers,
                 queries, removals, fired, pruned>>

CaptureCall == CaptureCallUpTo(MaxCalls)

\* the same call by a user who also queries and prunes the graph
CaptureCallQ == CaptureCallUpTo(MaxQCalls)

\* the same call by a user who goes on to clone the graph
CaptureCallC == CaptureCallUpTo(MaxCCalls)

\* a flush handed to window.setTimeout runs
Timer ==
  /\ agenda = <<>>
  /\ timers > 0
  /\ timers' = timers - 1
  /\ agenda' = <<FlushI>>
  /\ UNCHANGED <<heap, engine, clone, storeVars, graphVars, cacheVars, lazy, userVars,
                 fired, pruned>>

\* ObjectGraph.prototype.capture, busy branch
CaptureBusy ==
  /\ agenda # <<>> /\ Head(agenda).op = "capture"
  /\ busy
  /\ qOnDone' = <<DeferClosure(Head(agenda).o, Head(agenda).key, Head(agenda).k)>>
                  \o qOnDone
  /\ agenda' = Tail(agenda)
  /\ UNCHANGED <<heap, engine, clone, storeVars, busy, root, key, epoch, cacheVars, lazy,
                 timers, userVars, fired, pruned>>

\* the cache objects that stay referenced when this.keysCache is replaced
KeptCaches == IF clone.made THEN {clone.keysCache} ELSE {}

\* ObjectGraph.prototype.capture, idle branch, up to its call of q.flush()
CaptureStart ==
  /\ agenda # <<>> /\ Head(agenda).op = "capture"
  /\ ~busy
  /\ epoch < MaxStarts
  /\ LET c == Head(agenda)
         S0 == [Cur EXCEPT !.data = EmptyMap, !.metadata = EmptyMap,
                           !.protos = EmptyMap, !.functions = <<>>,
                           !.stores = [id \in Ids |-> 0]]
         S1 == IF c.o \in heap.bl THEN S0 ELSE visitObject(S0, c.o, epoch + 1).s
     IN /\ busy' = TRUE
        /\ key' = c.key
        /\ root' = RootOf(c.o)
        /\ epoch' = epoch + 1
        /\ keysCache' = epoch + 1
        /\ caches' = [a \in {epoch + 1} \cup KeptCaches |->
                         IF a = epoch + 1 THEN EmptyMap ELSE caches[a]]
        /\ lazy' = Rebind(lazy, data, protos)
        /\ qOnDone' = <<DoneClosure(c.k)>> \o qOnDone
        /\ Commit(S1)
        /\ agenda' = <<FlushI>> \o Tail(agenda)
  /\ pruned' = FALSE
  /\ UNCHANGED <<heap, engine, clone, timers, userVars, fired>>

\* TaskQueue.prototype.flush
Flush ==
  /\ agenda # <<>> /\ Head(agenda).op = "flush"
  /\ LET S == FlushLoop(Cur, 0, epoch) IN
       /\ Commit(S)
       /\ IF Len(S.q) > 0
            THEN timers' = timers + 1 /\ agenda' = Tail(agenda)
            ELSE timers' = timers /\ agenda' = <<InvokeI(qOnDone)>> \o Tail(agenda)
  /\ UNCHANGED <<heap, engine, clone, graphVars, cacheVars, lazy, userVars, fired, pruned>>

\* a call of the function stored in TaskQueue.onDone: the no-op of
\* TaskQueue.js:33, the closure of lines 249-252, or the closure of lines
\* 266-272 up to its call of opts.onDone
Invoke ==
  /\ agenda # <<>> /\ Head(agenda).op = "invoke"
  /\ LET chain == Head(agenda).chain IN
       \/ /\ chain = <<>>
          /\ agenda' = Tail(agenda)
          /\ lazy' = lazy
       \/ /\ chain # <<>> /\ Head(chain).t = "done"
          /\ lazy' = initLazyData
          /\ agenda' = <<InvokeI(Tail(chain)), UserDoneI(Head(chain).k)>>
                         \o Tail(agenda)
       \/ /\ chain # <<>> /\ Head(chain).t = "defer"
          /\ lazy' = lazy
          /\ agenda' = <<InvokeI(Tail(chain)),
                         CaptureI(Head(chain).o, Head(chain).key, Head(chain).k)>>
                         \o Tail(agenda)
  /\ UNCHANGED <<heap, engine, clone, storeVars, graphVars, cacheVars, timers, userVars,
                 fired, pruned>>

\* the end of the closure of lines 266-272: opts.onDone(this); busy = false
UserDone ==
  /\ agenda # <<>> /\ Head(agenda).op = "userDone"
  /\ fired' = [fired EXCEPT ![Head(agenda).k] = @ + 1]
  /\ busy' = FALSE
  /\ agenda' = Tail(agenda)
  /\ UNCHANGED <<heap, engine, clone, storeVars, root, key, epoch, qOnDone, cacheVars,
                 lazy, timers, userVars, pruned>>

\* the identities the user asks about
QueryIds == {UID(o) : o \in heap.objs}

\* the user calls getKeys(id)
GetKeys ==
  /\ agenda = <<>>
  /\ queries < MaxQueries
  /\ queries' = queries + 1
  /\ \E id \in QueryIds :
       IF GetKeysThrows(GView, id)
         THEN UNCHANGED <<caches, lazy>>
         ELSE /\ caches' = [caches EXCEPT ![keysCache] = Put(@, id, getKeys(GView, id))]
              /\ lazy' = LazyAfterGetKeys(GView, id)
  /\ UNCHANGED <<heap, engine, clone, storeVars, graphVars, keysCache, timers, agenda,
                 calls, removals, fired, pruned>>

\* removeIds that leaves this.data as it is
removeIdsKeepingData(F, ids) ==
  [F EXCEPT !.protos = Del(@, ids),
            !.metadata = Del(@, ids),
            !.functions = SelectSeq(@, LAMBDA f : f \notin ids)]

\* the loop of removeIds and its _.difference, on the fields F of a graph
removeIdsFrom(F, ids) ==
  [F EXCEPT !.data = Del(@, ids),
            !.protos = Del(@, ids),
            !.metadata = Del(@, ids),
            !.functions = SelectSeq(@, LAMBDA f : f \notin ids)]

\* the user calls removeIds(ids)
RemoveIds ==
  /\ agenda = <<>>
  /\ ~busy
  /\ epoch > 0
  /\ removals < MaxRemovals
  /\ removals' = removals + 1
  /\ \E id \in QueryIds :
       LET F == removeIdsFrom([data |-> data, protos |-> protos,
                               metadata |-> metadata, functions |-> functions], {id})
       IN /\ data' = F.data
          /\ protos' = F.protos
          /\ metadata' = F.metadata
          /\ functions' = F.functions
  /\ lazy' = initLazyData
  /\ pruned' = TRUE
  /\ UNCHANGED <<heap, engine, clone, maps, metas, q, stores, asserts, graphVars,
                 cacheVars, timers, agenda, calls, queries, fired>>

\* console.assert with a false condition logs the message and returns (the
\* browsers, Node.js from version 10), or throws an AssertionError (Node.js
\* before version 10)
AssertOutcomes == {"logs", "throws"}

\* the user calls removePrimitives([{id, key}])
RemovePrimitivesOf(id, k) ==
  /\ agenda = <<>>
  /\ ~busy
  /\ epoch > 0
  /\ removals < MaxRemovals
  /\ removals' = removals + 1
  /\ LET m == maps[data[id]]
         ok == k \in DOMAIN m /\ isType(m[k])
     IN \E outcome \in AssertOutcomes :
          IF ~ok /\ outcome = "throws"
            THEN /\ asserts' = asserts \cup {"Attempt to remove non-primitive"}
                 /\ UNCHANGED <<maps, lazy, pruned>>
            ELSE /\ asserts' = IF ok THEN asserts
                               ELSE asserts \cup {"Attempt to remove non-primitive"}
                 /\ maps' = [maps EXCEPT ![data[id]] = Del(@, {k})]
                 /\ lazy' = initLazyData
                 /\ pruned' = TRUE
  /\ UNCHANGED <<heap, engine, clone, data, metadata, protos, functions, metas, q,
                 stores, graphVars, cacheVars, timers, agenda, calls, queries, fired>>

RemovePrimitives == \E id \in DOMAIN data, k \in {NA, NB} : RemovePrimitivesOf(id, k)

\* the identities handed to cloneWithout: none, or one of them
CloneArgs == {{}} \cup {{id} : id \in QueryIds}

\* the clone as its queries read it: init() gave it the caller's keysCache,
\* cloneWithout gave it data, metadata, protos and functions, and nothing
\* gave it a root or a key
CView ==
  [root |-> Undefined, key |-> EmptyStr, data |-> clone.data, protos |-> clone.protos,
   functions |-> clone.functions, metadata |-> clone.metadata, maps |-> maps,
   lazy |-> clone.lazy, cache |-> caches[clone.keysCache], engine |-> engine]

\* the user calls c = cloneWithout(withoutIds); clone() is cloneWithout([])
cloneWithoutOf(withoutIds) ==
  /\ agenda = <<>>
  /\ ~busy
  /\ epoch > 0
  /\ ~clone.made
  /\ clone' = removeIdsFrom([made |-> TRUE, data |-> data, metadata |-> metadata,
                             protos |-> protos, functions |-> functions,
                             lazy |-> initLazyData, keysCache |-> keysCache],
                            withoutIds)
  /\ UNCHANGED <<heap, engine, storeVars, graphVars, cacheVars, lazy, timers, agenda,
                 userVars, fired, pruned>>

cloneWithout == \E withoutIds \in CloneArgs : cloneWithoutOf(withoutIds)

\* the user calls c = c.cloneWithout(withoutIds): the clone of the clone has
\* the keysCache of the clone and copies of its fields
CloneAgainOf(withoutIds) ==
  /\ agenda = <<>>
  /\ clone.made
  /\ clone' = removeIdsFrom([clone EXCEPT !.lazy = initLazyData], withoutIds)
  /\ UNCHANGED <<heap, engine, storeVars, graphVars, cacheVars, lazy, timers, agenda,
                 userVars, fired, pruned>>

CloneAgain == \E withoutIds \in CloneArgs : CloneAgainOf(withoutIds)

\* the user calls c.getKeys(id)
CloneGetKeys ==
  /\ agenda = <<>>
  /\ clone.made
  /\ queries < MaxQueries
  /\ queries' = queries + 1
  /\ \E id \in QueryIds :
       /\ caches' = [caches EXCEPT ![clone.keysCache] = Put(@, id, getKeys(CView, id))]
       /\ clone' = [clone EXCEPT !.lazy = LazyAfterGetKeys(CView, id)]
  /\ UNCHANGED <<heap, engine, storeVars, graphVars, keysCache, lazy, timers, agenda,
                 calls, removals, fired, pruned>>

\* the user calls c.removeIds(ids)
CloneRemoveIds ==
  /\ agenda = <<>>
  /\ clone.made
  /\ removals < MaxRemovals
  /\ removals' = removals + 1
  /\ \E id \in QueryIds :
       clone' = removeIdsFrom([clone EXCEPT !.lazy = initLazyData], {id})
  /\ UNCHANGED <<heap, engine, storeVars, graphVars, cacheVars, lazy, timers, agenda,
                 calls, queries, fired, pruned>>

\* the user calls c.removePrimitives([{id, key}])
CloneRemovePrimitives ==
  /\ agenda = <<>>
  /\ clone.made
  /\ removals < MaxRemovals
  /\ removals' = removals + 1
  /\ \E id \in DOMAIN clone.data, k \in {NA, NB}, outcome \in AssertOutcomes :
       LET m == maps[clone.data[id]]
           ok == k \in DOMAIN m /\ isType(m[k])
       IN IF ~ok /\ outcome = "throws"
            THEN /\ asserts' = asserts \cup {"Attempt to remove non-primitive"}
                 /\ UNCHANGED <<maps, clone>>
            ELSE /\ asserts' = IF ok THEN asserts
                               ELSE asserts \cup {"Attempt to remove non-primitive"}
                 /\ maps' = [maps EXCEPT ![clone.data[id]] = Del(@, {k})]
                 /\ clone' = [clone EXCEPT !.lazy = initLazyData]
  /\ UNCHANGED <<heap, engine, data, metadata, protos, functions, metas, q, stores,
                 graphVars, cacheVars, lazy, timers, agenda, calls, queries, fired,
                 pruned>>

Next ==
  \/ CaptureCall
  \/ Timer
  \/ CaptureBusy
  \/ CaptureStart
  \/ Flush
  \/ Invoke
  \/ UserDone

\* captures alone
Spec == Init /\ [][Next]_vars

NextQ ==
  \/ CaptureCallQ
  \/ Timer
  \/ CaptureBusy
  \/ CaptureStart
  \/ Flush
  \/ Invoke
  \/ UserDone
  \/ GetKeys
  \/ RemoveIds
  \/ RemovePrimitives

\* captures, queries and removals
SpecQ == Init /\ [][NextQ]_vars

NextC ==
  \/ CaptureCallC
  \/ Timer
  \/ CaptureStart
  \/ Flush
  \/ Invoke
  \/ UserDone
  \/ GetKeys
  \/ RemoveIds
  \/ RemovePrimitives
  \/ cloneWithout
  \/ CloneGetKeys
  \/ CloneRemoveIds
  \/ CloneRemovePrimitives

\* one capture, a clone, and queries and removals on the graph and the clone
SpecC == Init /\ [][NextC]_vars

NextI ==
  \/ CaptureCallC
  \/ Timer
  \/ CaptureStart
  \/ Flush
  \/ Invoke
  \/ UserDone
  \/ cloneWithout
  \/ CloneAgain

\* one capture, a clone of the graph and clones of the clone
SpecI == Init /\ [][NextI]_vars

\* the user who calls capture() once
CaptureCallOnce == calls = 0 /\ CaptureCallUpTo(MaxCalls)

NextL ==
  \/ CaptureCallOnce
  \/ Timer
  \/ CaptureStart
  \/ Flush
  \/ Invoke
  \/ UserDone

\* the running handler is about to call q.flush()
FlushReady == agenda # <<>> /\ Head(agenda).op = "flush"

\* the running handler is about to call capture() on a graph that is not busy
StartReady ==
  agenda # <<>> /\ Head(agenda).op = "capture" /\ ~busy /\ epoch < MaxStarts

\* a flush handed to window.setTimeout eventually runs, and a handler that is
\* running goes on to its next call.  The last two conjuncts are
\* WF_vars(Flush) and WF_vars(CaptureStart), written with FlushReady for
\* ENABLED <<Flush>>_vars and StartReady for ENABLED <<CaptureStart>>_vars.
Scheduling ==
  /\ WF_vars(Timer)
  /\ WF_vars(Invoke)
  /\ WF_vars(UserDone)
  /\ ([]<>~FlushReady \/ []<><<Flush>>_vars)
  /\ ([]<>~StartReady \/ []<><<CaptureStart>>_vars)

SpecL == Init /\ [][NextL]_vars /\ Scheduling

(***************************************************************************)
(* The properties stated of the program.                                   *)
(***************************************************************************)
Idle == agenda = <<>> /\ ~busy /\ q = <<>> /\ timers = 0

\* the object handed to the capture that set this.root
CapturedObj ==
  IF root.id # 0 THEN CHOOSE o \in AllObj : UID(o) = root.id ELSE root.raw

\* the objects a visit of x goes on to: its delegation parent and the values
\* of its own properties that are not blacklisted
Succ(x) ==
  ({heap.proto[x]} \cup {heap.val[x][VisitedNames(x)[i]] : i \in 1..Len(VisitedNames(x))})
    \cap heap.objs

RECURSIVE ReachFrom(_)
ReachFrom(S) ==
  LET N == S \cup UNION {Succ(x) : x \in S}
  IN IF N = S THEN S ELSE ReachFrom(N)

Reach(o) == IF o \in heap.objs \ heap.bl THEN ReachFrom({o}) ELSE {}

\* C1: since the last reset of data, storeObject ran at most once per
\* identity, exactly once for each identity that has a data entry, its
\* 'Repeated store-id' assertion never failed, and no object's traversal is
\* queued twice by the running capture.
C1_StoredOnce ==
  /\ "Repeated store-id" \notin asserts
  /\ \A id \in Ids : stores[id] = (IF id \in DOMAIN data THEN 1 ELSE 0)
  /\ \A o \in AllObj :
       Cardinality({i \in DOMAIN q : q[i].t = "proto" /\ q[i].o = o
                                     /\ q[i].ep = epoch}) <= 1

\* a capture of the diamond is complete: the shared object o11 is recorded
\* under both of its parents and was stored once
C1_DiamondCaptured ==
  /\ heap = HeapDiamond
  /\ Idle
  /\ DOMAIN data = {8, 9, 10, 11}
  /\ maps[data[9]][NA] = 11
  /\ maps[data[10]][NA] = 11
  /\ stores[11] = 1

\* the graph holds all that is reachable from the captured object
Complete ==
  \A o \in Reach(CapturedObj) :
    /\ UID(o) \in DOMAIN data
    /\ stores[UID(o)] = 1
    /\ UID(o) \in DOMAIN protos
    /\ \A i \in 1..Len(VisitedNames(o)) :
         rewriteName(VisitedNames(o)[i]) \in DOMAIN maps[data[UID(o)]]

\* C2: whenever a capture's opts.onDone is about to be invoked, the queue is
\* empty and the graph holds every object reachable from the captured one,
\* with its delegation parent and each of its properties recorded.
C2_DoneSeesWholeGraph ==
  (agenda # <<>> /\ Head(agenda).op = "userDone") => (q = <<>> /\ Complete)

\* C3: data, metadata, protos and functions are reset, and a new root is
\* visited, only when the queue holds no work item.
C3_CapturesSerialized == [][epoch' # epoch => q = <<>>]_vars

\* C4: no call's opts.onDone is invoked more than once, and when the graph
\* is idle every call made so far has had its opts.onDone invoked.
C4_OnDoneOnce ==
  \A k \in 1..MaxCalls :
    /\ fired[k] <= 1
    /\ (Idle /\ k <= calls) => fired[k] = 1

\* C9: no blacklisted object has an entry in data.
C9_BlacklistedNeverStored == \A o \in heap.bl : UID(o) \notin DOMAIN data

Closed(v) == isType(v) \/ v \in DOMAIN data

\* C10: as long as nothing was removed since data was reset, every value in
\* the entries of data, every value of protos and every element of functions
\* is a type sentinel or a key of data.
C10_ReferentialClosure ==
  ~pruned =>
    /\ \A id \in DOMAIN data : \A n \in DOMAIN maps[data[id]] : Closed(maps[data[id]][n])
    /\ \A id \in DOMAIN protos : Closed(protos[id])
    /\ \A i \in 1..Len(functions) : Closed(functions[i])

\* a capture has recorded an object-valued property, a delegation parent
\* that is an object, and a function
C10_ReferencesRecorded ==
  /\ heap = HeapProto
  /\ functions = <<9>>
  /\ 8 \in DOMAIN protos /\ protos[8] = 10
  /\ 8 \in DOMAIN data /\ NA \in DOMAIN maps[data[8]] /\ maps[data[8]][NA] = 9

\* the graph has run a capture to its end and nothing was removed from it
Captured == Idle /\ epoch > 0 /\ ~pruned /\ lazy.invData.st # "none"

\* C5: on a completed capture, lookup(p) returns id for every identity id
\* of data and every key p that getKeys(id) returns.
C5_PathSoundness ==
  Captured =>
    \A id \in DOMAIN data :
      \A i \in 1..Len(getKeys(GView, id)) :
        lookup(GView, getKeys(GView, id)[i]) = id

\* ObjectGraph.jsonKeys, and the fields among them that the model holds
jsonKeys ==
  {"timestamp", "userAgent", "root", "key", "data", "protos", "types", "keys",
   "blacklistedKeys", "functions", "metadata"}

toJSON(G) ==
  [root |-> G.root, key |-> G.key, data |-> G.data, protos |-> G.protos,
   functions |-> G.functions, metadata |-> G.metadata]

\* fromJSON: a new graph (init: an empty keysCache) given the fields of the
\* record, with its lazy properties installed
fromJSON(o, G) ==
  [G EXCEPT !.root = o.root, !.key = o.key, !.data = o.data, !.protos = o.protos,
            !.functions = o.functions, !.metadata = o.metadata,
            !.cache = EmptyMap, !.lazy = initLazyData]

\* the keys of getAllKeys(): those of getKeys(id) for every id of getAllIds()
AllKeysOf(G) ==
  UNION {{getKeys(G, ReadAllIds(G)[i])[j] : j \in 1..Len(getKeys(G, ReadAllIds(G)[i]))} :
         i \in 1..Len(ReadAllIds(G))}

\* C6: for a captured graph g and h = fromJSON(g.toJSON()), getAllIds(),
\* getKeys(id) for every id and lookup(path) for every path of
\* g.getAllKeys() are the same on h as on g.
C6_RoundTrip ==
  Captured =>
    LET H == fromJSON(toJSON(GView), GView) IN
    /\ ReadAllIds(H) = ReadAllIds(GView)
    /\ \A id \in QueryIds : getKeys(H, id) = getKeys(GView, id)
    /\ \A p \in AllKeysOf(GView) : lookup(H, p) = lookup(GView, p)

\* C8: in every idle state getKeys(id) returns what getKeys_(id) computes
\* from the data, protos, root and key of that state.
C8_CacheInvalidated ==
  Idle =>
    \A id \in QueryIds :
      ~GetKeysThrows(GView, id) => getKeys(GView, id) = FreshKeys(GView, id)

\* what a user of the graph, and of the clone, can tell about it: the
\* content of data, metadata, protos and functions, and what getKeys returns
KeysSeen(G) ==
  [id \in QueryIds |-> IF GetKeysThrows(G, id) THEN <<<<"TypeError">>>> ELSE getKeys(G, id)]

GObs ==
  [data |-> [id \in DOMAIN data |-> maps[data[id]]],
   metadata |-> [id \in DOMAIN metadata |-> metas[metadata[id]]],
   protos |-> protos, functions |-> functions, keys |-> KeysSeen(GView)]

CObs ==
  [data |-> [id \in DOMAIN clone.data |-> maps[clone.data[id]]],
   metadata |-> [id \in DOMAIN clone.metadata |-> metas[clone.metadata[id]]],
   protos |-> clone.protos, functions |-> clone.functions, keys |-> KeysSeen(CView)]

CloneOp == CloneGetKeys \/ CloneRemoveIds \/ CloneRemovePrimitives
GraphOp == clone.made /\ (GetKeys \/ RemoveIds \/ RemovePrimitives)

\* C7: after c = g.cloneWithout(ids), a removeIds, removePrimitives or
\* getKeys call on c leaves the data, metadata, protos and functions of g and
\* what g.getKeys(id) returns for every id as they were, and such a call on
\* g leaves those of c as they were.
C7_CloneIndependent ==
  [][(CloneOp => GObs' = GObs) /\ (GraphOp => CObs' = CObs)]_vars

\* C11: when data[id][key] is an object identity, a call of
\* removePrimitives([{id, key}]) fails its precondition check and does not
\* delete the entry.
C11_NonPrimitiveKept ==
  [][\A id \in DOMAIN data, k \in {NA, NB} :
       (/\ k \in DOMAIN maps[data[id]]
        /\ ~isType(maps[data[id]][k])
        /\ RemovePrimitivesOf(id, k))
       => (/\ "Attempt to remove non-primitive" \in asserts'
           /\ k \in DOMAIN maps'[data[id]])]_vars

\* the least, in the order of strings, of the shortest elements of ks
LeastShortest(ks) ==
  LET all == {ks[i] : i \in 1..Len(ks)}
      short == {x \in all : \A y \in all : Len(x) <= Len(y)}
  IN CHOOSE x \in short : \A y \in short \ {x} : StrLT(x, y)

\* C12: for every identity whose getKeys(id) is not empty, the root under
\* the default empty key included, getShortestKey(id) is the least, in the
\* order of strings, of the shortest paths of getKeys(id).
C12_ShortestKey ==
  Captured =>
    \A id \in QueryIds :
      getKeys(GView, id) # <<>> =>
        getShortestKey(GView, id) = LeastShortest(getKeys(GView, id))

\* the names under which values are stored in data
StoredNames == UNION {DOMAIN maps[data[id]] : id \in DOMAIN data}

\* A has no entry of its own for x and its recorded delegation parent has one
Inherits(A, x) ==
  /\ A \in DOMAIN data /\ x \notin DOMAIN maps[data[A]]
  /\ A \in DOMAIN protos /\ protos[A] \in DOMAIN data
  /\ x \in DOMAIN maps[data[protos[A]]]

\* C13: on a captured graph, if data[A] has no entry for x and data[B] has
\* one, B being the delegation parent recorded for A, then lookup(x, A)
\* returns what lookup(x, B) returns.
C13_DelegationFallback ==
  Captured =>
    \A A \in DOMAIN data, x \in StoredNames :
      Inherits(A, x) => lookupAt(GView, x, A) = lookupAt(GView, x, protos[A])

\* o8 has no b of its own and finds the one of its delegation parent o10
C13_InheritedFound ==
  /\ heap = HeapProto /\ Captured
  /\ Inherits(8, NB) /\ protos[8] = 10
  /\ lookupAt(GView, NB, 8) = 9

\* the identities getAllIds() returns
AllIdsOf(G) == {ReadAllIds(G)[i] : i \in 1..Len(ReadAllIds(G))}

\* C14: for a captured graph and an identity id, getAllIds() of
\* cloneWithout([id]) does not contain id, and cloneWithout([id]) of a clone
\* without id has the identities of that clone.
C14_RemovalIdempotent ==
  [][\A id \in QueryIds :
       /\ cloneWithoutOf({id}) => id \notin AllIdsOf(CView')
       /\ (CloneAgainOf({id}) /\ id \notin AllIdsOf(CView))
            => AllIdsOf(CView') = AllIdsOf(CView)]_vars

\* a clone of the diamond without o9, cloned again without o9
C14_ClonedTwice ==
  /\ heap = HeapDiamond /\ DOMAIN data = {8, 9, 10, 11}
  /\ clone.made /\ AllIdsOf(CView) = {8, 10, 11}
  /\ ENABLED CloneAgainOf({9})

\* the call of capture(o), o blacklisted, that the user made while busy was
\* false has returned: it is the latest capture started, and it was not
\* deferred
BlacklistedCaptureOf(k) ==
  /\ agenda = <<>>
  /\ root.id \in {UID(o) : o \in heap.bl}
  /\ qOnDone # <<>> /\ Head(qOnDone) = DoneClosure(k)
  /\ \A i \in 1..Len(qOnDone) : ~(qOnDone[i].t = "defer" /\ qOnDone[i].k = k)

Throwing ==
  {<<o, n>> \in AllObj \X {NA, NB, NC, NW} :
     /\ o \in heap.objs /\ UID(o) \in DOMAIN data
     /\ n \in DOMAIN heap.val[o] /\ heap.val[o][n] = "throw"}

\* C16: a property of a visited object whose read throws is recorded under
\* its rewritten name with the exception sentinel, and once the queue has
\* drained it is recorded.
C16_AccessFaultRecorded ==
  \A t \in Throwing :
    LET m == maps[data[UID(t[1])]]
        name == rewriteName(t[2])
    IN /\ name \in DOMAIN m => m[name] = types["exception"]
       /\ Idle => name \in DOMAIN m

\* o8.b threw, was recorded, and the work queued behind it ran to the done
\* callback: o10, the value of o8.c, is stored
C16_FaultThenDone ==
  /\ heap = HeapBlack /\ Idle /\ fired[1] = 1
  /\ <<"o8", NB>> \in Throwing
  /\ NB \in DOMAIN maps[data[8]] /\ maps[data[8]][NB] = types["exception"]
  /\ rewriteName(NC) \in DOMAIN maps[data[8]] /\ maps[data[8]][rewriteName(NC)] = 10
  /\ 10 \in DOMAIN data

\* the paths looked up: one and two property names, and a delegation step
ProbePaths ==
  {NA, NB, NA \o DOT \o NA, NA \o DOT \o NB, NB \o DOT \o NA, PROTO \o DOT \o NB,
   NA \o DOT \o PROTO}

\* C17: on a graph that capture produced and removeIds pruned, lookup(path,
\* root) raises no error: a path that does not resolve gives null.
C17_MissIsNull ==
  (Idle /\ epoch > 0) =>
    \A rt \in DOMAIN data, p \in ProbePaths : lookupAt(GView, p, rt) # TypeError

\* C18: getAllIds() returns the keys of data, as integers, in ascending
\* numerical order.
C18_AllIdsAscending ==
  Captured => ReadAllIds(GView) = AscSeq(DOMAIN data)

\* the number of times the capture of call k was started: each start leaves
\* its closure of lines 266-272 in the chain TaskQueue.onDone holds
StartsOf(k) ==
  Cardinality({i \in DOMAIN qOnDone : qOnDone[i] = DoneClosure(k)})

\* call k found the graph busy and was deferred
Deferred(k) ==
  \E i \in DOMAIN qOnDone : qOnDone[i].t = "defer" /\ qOnDone[i].k = k

\* C19: a capture() call deferred because the graph was busy is started
\* exactly once after the capture in flight completes, and the graph then
\* becomes and stays idle.
C19_DeferredStartedOnce ==
  \A k \in 1..MaxCalls : Deferred(k) => StartsOf(k) <= 1

\* C20: a single capture of a finite object graph, cycles included,
\* terminates: if every scheduled flush eventually runs, the queue drains,
\* the done callback fires and busy becomes false.
C20_CaptureTerminates ==
  (calls = 1) ~> (q = <<>> /\ fired[1] = 1 /\ ~busy /\ agenda = <<>> /\ timers = 0)

\* the capture of the cyclic graph has ended, after flushes run from timers
C20_CycleCaptured ==
  /\ heap = HeapCycle
  /\ calls = 1 /\ epoch = 1
  /\ Idle /\ fired[1] = 1
  /\ root.id # 0
  /\ 8 \in DOMAIN data /\ NB \in DOMAIN maps[data[8]] /\ maps[data[8]][NB] = 8

\* the objects whose stored property named n is id, and those whose recorded
\* prototype is id
HoldersOf(id, n) ==
  {a \in DOMAIN data : /\ data[a] \in DOMAIN maps
                       /\ n \in DOMAIN maps[data[a]]
                       /\ maps[data[a]][n] = id}
ProtoHoldersOf(id) == {a \in DOMAIN protos : protos[a] = id}

\* the paths from the root's key to id made of own-property steps and
\* __proto__ steps that pass through no object of the set via and through no
\* object twice
RECURSIVE SimplePaths(_, _)
SimplePaths(id, via) ==
  IF id = root.id THEN {key}
  ELSE
    UNION {{p \o DOT \o n : p \in SimplePaths(a, via \cup {id})} :
             <<a, n>> \in {e \in (DOMAIN data) \X (StoredNames \ blacklistedKeys) :
                             e[1] \in HoldersOf(id, e[2]) \ (via \cup {id})}}
    \cup UNION {{p \o DOT \o PROTO : p \in SimplePaths(a, via \cup {id})} :
                  a \in ProtoHoldersOf(id) \ (via \cup {id})}

\* C21: getKeys(id) contains every path from the root's key to id that is
\* formed of own-property steps and __proto__ steps and repeats no object.
C21_KeysComplete ==
  (Captured /\ root.id # 0) =>
    \A id \in DOMAIN data : SimplePaths(id, {}) \subseteq Range(getKeys(GView, id))

\* C22: after c = g.clone() of a completed capture, c has the root of g, and
\* getKeys(id) for every id and lookup(path) for every path return on c what
\* they return on g.
C22_CloneAnswersAlike ==
  [][cloneWithoutOf({}) =>
       /\ CView'.root = GView'.root
       /\ \A id \in QueryIds : getKeys(CView', id) = getKeys(GView', id)
       /\ \A p \in ProbePaths : lookup(CView', p) = lookup(GView', p)]_vars

\* the value visitObject(o) returns to a capture that has just reset data
VisitValue(o) ==
  visitObject([Cur EXCEPT !.data = EmptyMap], o, epoch + 1).ret

\* C23: after capture(o), root is the value that visiting o yields: the
\* identity of o when o is an object or a function, and the sentinel of its
\* type (1..7) when o is a primitive or null.
C23_RootIsVisitValue ==
  [][(CaptureStart /\ Head(agenda).o \notin heap.bl) =>
       root' = [id |-> VisitValue(Head(agenda).o), raw |-> ""]]_vars

====
